---- MODULE Spec2Model ----
(***************************************************************************)
(* A model of suno_expert.py: the tag sanitizer validate_suno_tags, the    *)
(* response parser clean_json_response, the Groq adapter, the style        *)
(* resolver and the orchestrator generate_suno_prompt.                     *)
(*                                                                         *)
(* Text is a sequence of atoms.  An atom is either one character that some *)
(* regular expression of the source looks at (a bracket, a brace, the      *)
(* double quote, the backslash, the asterisk, the space, the newline, the   *)
(* comma, the colon, the equals sign and the apostrophe),                  *)
(* the three-backtick fence, or a word: a maximal chunk of text that       *)
(* starts and ends with a word character and holds none of the characters  *)
(* above.  Every regular expression of the source is translated to the     *)
(* scan it performs over such a sequence.                                  *)
(***************************************************************************)
EXTENDS Integers, Sequences, FiniteSets, TLC

Range(s) == {s[i] : i \in 1..Len(s)}

(* ---------------------------------------------------------------------- *)
(* Tag vocabulary                                                         *)
(* ---------------------------------------------------------------------- *)
SUNO_STRUCTURE ==
  << <<"Intro">>,
     <<"Verse">>,
     <<"Pre-Chorus">>,
     <<"Chorus">>,
     <<"Post-Chorus">>,
     <<"Bridge">>,
     <<"Outro">>,
     <<"Hook">>,
     <<"Break">>,
     <<"Drop">>,
     <<"Buildup">>,
     <<"Fade", " ", "Out">>,
     <<"Instrumental">>,
     <<"Solo">> >>
SUNO_VOCALS ==
  << <<"Male", " ", "Vocal">>,
     <<"Female", " ", "Vocal">>,
     <<"Duet">>,
     <<"Choir">>,
     <<"Whisper">>,
     <<"Spoken", " ", "Word">>,
     <<"Rap">>,
     <<"Falsetto">>,
     <<"Belting">>,
     <<"Growl">>,
     <<"Harmonies">>,
     <<"Ad-libs">>,
     <<"Background", " ", "Vocals">> >>
SUNO_DELIVERY ==
  << <<"Soft">>,
     <<"Powerful">>,
     <<"Breathy">>,
     <<"Clear">>,
     <<"Gritty">>,
     <<"Smooth">>,
     <<"Aggressive">>,
     <<"Emotional">>,
     <<"Detached">>,
     <<"Intimate">> >>
SUNO_EFFECTS ==
  << <<"Reverb">>,
     <<"Delay">>,
     <<"AutoTune">>,
     <<"No", " ", "AutoTune">>,
     <<"Distortion">>,
     <<"Compression">>,
     <<"Wide", " ", "Stereo">>,
     <<"Centered">>,
     <<"Panned", " ", "Left">>,
     <<"Panned", " ", "Right">> >>

(* lower(), stored and upper() spelling of every word the model uses *)
CaseRows ==
  << <<"ad-libs", "Ad-libs", "AD-LIBS">>,
     <<"aggressive", "Aggressive", "AGGRESSIVE">>,
     <<"autotune", "AutoTune", "AUTOTUNE">>,
     <<"background", "Background", "BACKGROUND">>,
     <<"belting", "Belting", "BELTING">>, <<"break", "Break", "BREAK">>,
     <<"breathy", "Breathy", "BREATHY">>, <<"bridge", "Bridge", "BRIDGE">>,
     <<"buildup", "Buildup", "BUILDUP">>, <<"centered", "Centered", "CENTERED">>,
     <<"choir", "Choir", "CHOIR">>, <<"chorus", "Chorus", "CHORUS">>,
     <<"clear", "Clear", "CLEAR">>, <<"compression", "Compression", "COMPRESSION">>,
     <<"delay", "Delay", "DELAY">>, <<"detached", "Detached", "DETACHED">>,
     <<"distortion", "Distortion", "DISTORTION">>, <<"drop", "Drop", "DROP">>,
     <<"duet", "Duet", "DUET">>, <<"emotional", "Emotional", "EMOTIONAL">>,
     <<"fade", "Fade", "FADE">>, <<"falsetto", "Falsetto", "FALSETTO">>,
     <<"female", "Female", "FEMALE">>, <<"gritty", "Gritty", "GRITTY">>,
     <<"growl", "Growl", "GROWL">>, <<"harmonies", "Harmonies", "HARMONIES">>,
     <<"hook", "Hook", "HOOK">>, <<"instrumental", "Instrumental", "INSTRUMENTAL">>,
     <<"intimate", "Intimate", "INTIMATE">>, <<"intro", "Intro", "INTRO">>,
     <<"left", "Left", "LEFT">>, <<"male", "Male", "MALE">>, <<"no", "No", "NO">>,
     <<"out", "Out", "OUT">>, <<"outro", "Outro", "OUTRO">>,
     <<"panned", "Panned", "PANNED">>,
     <<"post-chorus", "Post-Chorus", "POST-CHORUS">>,
     <<"powerful", "Powerful", "POWERFUL">>,
     <<"pre-chorus", "Pre-Chorus", "PRE-CHORUS">>, <<"rap", "Rap", "RAP">>,
     <<"reverb", "Reverb", "REVERB">>, <<"right", "Right", "RIGHT">>,
     <<"smooth", "Smooth", "SMOOTH">>, <<"soft", "Soft", "SOFT">>,
     <<"solo", "Solo", "SOLO">>, <<"spoken", "Spoken", "SPOKEN">>,
     <<"stereo", "Stereo", "STEREO">>, <<"verse", "Verse", "VERSE">>,
     <<"vocal", "Vocal", "VOCAL">>, <<"vocals", "Vocals", "VOCALS">>,
     <<"whisper", "Whisper", "WHISPER">>, <<"wide", "Wide", "WIDE">>,
     <<"word", "Word", "WORD">>, <<"upbeat", "Upbeat", "UPBEAT">>,
     <<"energetic", "Energetic", "ENERGETIC">>, <<"chill", "Chill", "CHILL">>,
     <<"relaxed", "Relaxed", "RELAXED">>, <<"ambient", "Ambient", "AMBIENT">>,
     <<"style", "Style", "STYLE">>, <<"duration", "Duration", "DURATION">>,
     <<"auto", "Auto", "AUTO">>,
     <<"t", "T", "T">>, <<"w", "W", "W">>, <<"r", "R", "R">>,
     <<"title", "Title", "TITLE">>,
     <<"lyrics", "Lyrics", "LYRICS">>,
     <<"style_prompt", "Style_Prompt", "STYLE_PROMPT">>,
     <<"high energy", "High Energy", "HIGH ENERGY">>, <<"la", "La", "LA">> >>

CasedAtoms == UNION {{r[1], r[2], r[3]} : r \in Range(CaseRows)}

RowOf(a) == CHOOSE r \in Range(CaseRows) : a \in {r[1], r[2], r[3]}

LowerTab == [a \in CasedAtoms |-> RowOf(a)[1]]

UpperTab == [a \in CasedAtoms |-> RowOf(a)[3]]

(* lower and upper of str, atom by atom; matching that ignores case compares the lower forms *)
Lower(a) == IF a \in CasedAtoms THEN LowerTab[a] ELSE a

Upper(a) == IF a \in CasedAtoms THEN UpperTab[a] ELSE a

LowerSeq(s) == [i \in 1..Len(s) |-> Lower(s[i])]

UpperSeq(s) == [i \in 1..Len(s) |-> Upper(s[i])]

(* ---------------------------------------------------------------------- *)
(* Character classes                                                      *)
(* ---------------------------------------------------------------------- *)
LB == "["
RB == "]"
NL == "\n"
SP == " "
(* the three-backtick fence (a backtick cannot be written in a string here) *)
Fence == "~~~"
Star == "*"

(* the whitespace class of the patterns *)
WhiteSpace == {SP, NL}

(* the characters line 69 removes: braces, double quote, backslash *)
StrayChars == {"{", "}", "\"", "\\"}

(* atoms that are not words: a word boundary lies between a word and one of these *)
NonWord ==
  {LB, RB, Star, Fence, ",", ":", "=", "'"} \cup WhiteSpace \cup StrayChars

IsWord(a) == a \notin NonWord

(* a word boundary just before position i of text *)
BoundaryBefore(text, i) == i = 1 \/ ~IsWord(text[i - 1])

(* a word boundary just after position i of text *)
BoundaryAfter(text, i) == i = Len(text) \/ ~IsWord(text[i + 1])

(* ---------------------------------------------------------------------- *)
(* State                                                                  *)
(* ---------------------------------------------------------------------- *)

(* one call of validate_suno_tags on a text, and a second call on its     *)
(* result: the text, both results, and how far the caller has got         *)
VARIABLES ntext, nout, nagain, npc

(* one call of generate_suno_prompt: the environment and the arguments,   *)
(* the locals of the call, the reply of the backend, the value returned,  *)
(* the position in the function body and the number of requests posted    *)
VARIABLES api_key, config, max_mode, vocal_directing,
          genre, topic, bpm, style_prompt, lyrics_prompt,
          response, lyrics_result, result, pc, calls

nvars == <<ntext, nout, nagain, npc>>

gvars == <<api_key, config, max_mode, vocal_directing, genre, topic, bpm,
           style_prompt, lyrics_prompt, response, lyrics_result, result,
           pc, calls>>

vars == <<nvars, gvars>>

(* ---------------------------------------------------------------------- *)
(* validate_suno_tags, one definition per statement                       *)
(* ---------------------------------------------------------------------- *)

(* line 69: remove every stray character *)
StripStray(text) == SelectSeq(text, LAMBDA a : a \notin StrayChars)

(* line 70: remove a fence, the nearest fence after it (the match is lazy  *)
(* and crosses newlines) and everything between them                      *)
RECURSIVE RemoveCodeBlocksFrom(_, _)
RemoveCodeBlocksFrom(text, i) ==
  IF i > Len(text) THEN <<>>
  ELSE IF text[i] = Fence /\ \E j \in (i + 1)..Len(text) : text[j] = Fence
       THEN LET j == CHOOSE j \in (i + 1)..Len(text) :
                        /\ text[j] = Fence
                        /\ \A k \in (i + 1)..(j - 1) : text[k] # Fence
            IN  RemoveCodeBlocksFrom(text, j + 1)
       ELSE <<text[i]>> \o RemoveCodeBlocksFrom(text, i + 1)

RemoveCodeBlocks(text) == RemoveCodeBlocksFrom(text, 1)

(* the index after the run of atoms a that starts at i *)
RECURSIVE RunEnd(_, _, _)
RunEnd(text, i, a) ==
  IF i <= Len(text) /\ text[i] = a THEN RunEnd(text, i + 1, a) ELSE i

(* line 71: remove every run of two or more asterisks *)
RECURSIVE RemoveBoldFrom(_, _)
RemoveBoldFrom(text, i) ==
  IF i > Len(text) THEN <<>>
  ELSE IF text[i] = Star /\ RunEnd(text, i, Star) >= i + 2
       THEN RemoveBoldFrom(text, RunEnd(text, i, Star))
       ELSE <<text[i]>> \o RemoveBoldFrom(text, i + 1)

RemoveBold(text) == RemoveBoldFrom(text, 1)

(* line 74: the two word groups of the conflict pattern, matched ignoring case *)
HighEnergyWords == {"high energy", "energetic", "upbeat"}
LowEnergyWords == {"chill", "relaxed", "ambient"}

IsHigh(a) == Lower(a) \in HighEnergyWords
IsLow(a) == Lower(a) \in LowEnergyWords

(* the dot does not match a newline: k is reached from i on one line *)
SameLine(text, i, k) == \A m \in (i + 1)..(k - 1) : text[m] # NL

(* where the first alternative (high word, anything, boundary, low word) can end *)
HighLowEnds(text, i) ==
  IF IsHigh(text[i]) /\ BoundaryBefore(text, i)
  THEN {k \in (i + 1)..Len(text) :
          IsLow(text[k]) /\ BoundaryBefore(text, k) /\ SameLine(text, i, k)}
  ELSE {}

(* where the second alternative (low word, anything, boundary, high word, boundary) can end *)
LowHighEnds(text, i) ==
  IF IsLow(text[i]) /\ BoundaryBefore(text, i)
  THEN {k \in (i + 1)..Len(text) :
          /\ IsHigh(text[k])
          /\ BoundaryBefore(text, k)
          /\ BoundaryAfter(text, k)
          /\ SameLine(text, i, k)}
  ELSE {}

Max(S) == CHOOSE x \in S : \A y \in S : y <= x

(* the end of the greedy match that starts at i, 0 when there is none *)
ConflictEnd(text, i) ==
  IF HighLowEnds(text, i) # {} THEN Max(HighLowEnds(text, i))
  ELSE IF LowHighEnds(text, i) # {} THEN Max(LowHighEnds(text, i))
  ELSE 0

MediumEnergy == <<"Medium Energy">>

(* line 74: replace every leftmost greedy conflict match by Medium Energy *)
RECURSIVE ResolveConflictsFrom(_, _)
ResolveConflictsFrom(text, i) ==
  IF i > Len(text) THEN <<>>
  ELSE IF ConflictEnd(text, i) # 0
       THEN MediumEnergy \o ResolveConflictsFrom(text, ConflictEnd(text, i) + 1)
       ELSE <<text[i]>> \o ResolveConflictsFrom(text, i + 1)

ResolveConflicts(text) == ResolveConflictsFrom(text, 1)

(* the literal pattern pat matches text at i; ic is flags=re.I *)
MatchAt(text, i, pat, ic) ==
  /\ i + Len(pat) - 1 <= Len(text)
  /\ \A k \in 1..Len(pat) :
       IF ic THEN Lower(text[i + k - 1]) = Lower(pat[k])
             ELSE text[i + k - 1] = pat[k]

(* a name in brackets *)
Bracketed(name) == <<LB>> \o name \o <<RB>>

(* the tags the loops would visit if the vocal list were left out *)
LoopTagsWithoutVocals == SUNO_STRUCTURE \o SUNO_DELIVERY \o SUNO_EFFECTS

(* lines 77 and 82: the tags the two loops visit, in order *)
LoopTags == SUNO_STRUCTURE \o SUNO_VOCALS \o SUNO_DELIVERY \o SUNO_EFFECTS

(* lines 78 and 83: the pattern of a round, the lowered tag in brackets *)
LoopPatterns == [n \in 1..Len(LoopTags) |-> Bracketed(LowerSeq(LoopTags[n]))]

(* the rounds whose pattern matches text at i, ignoring case *)
RoundsAt(text, i) ==
  IF text[i] = LB
  THEN {n \in 1..Len(LoopTags) : MatchAt(text, i, LoopPatterns[n], TRUE)}
  ELSE {}

(* lines 76-83, both loops.  No two tags of the lists agree ignoring case   *)
(* and a round replaces a match by a text of the same length that no other *)
(* round matches, so the rounds do not interact and the loops amount to    *)
(* one scan that rewrites each match to the stored spelling of its tag.    *)
(* The second substitution of a structure round (line 79, the upper-case   *)
(* pattern, case-sensitive) finds nothing the first has not rewritten.     *)
RECURSIVE StandardizeTagsFrom(_, _)
StandardizeTagsFrom(text, i) ==
  IF i > Len(text) THEN <<>>
  ELSE IF RoundsAt(text, i) # {}
       THEN LET n == CHOOSE n \in RoundsAt(text, i) : TRUE
            IN  Bracketed(LoopTags[n])
                  \o StandardizeTagsFrom(text, i + Len(LoopPatterns[n]))
       ELSE <<text[i]>> \o StandardizeTagsFrom(text, i + 1)

StandardizeTags(text) == StandardizeTagsFrom(text, 1)

(* the first index at or after p that holds no whitespace *)
RECURSIVE SkipSpace(_, _)
SkipSpace(text, p) ==
  IF p <= Len(text) /\ text[p] \in WhiteSpace THEN SkipSpace(text, p + 1) ELSE p

(* the index of the first closing bracket after i, 0 when there is none *)
FirstClose(text, i) ==
  IF \E j \in (i + 1)..Len(text) : text[j] = RB
  THEN CHOOSE j \in (i + 1)..Len(text) :
         text[j] = RB /\ \A k \in (i + 1)..(j - 1) : text[k] # RB
  ELSE 0

(* the index after the greedy run of repetitions of tag, each after optional *)
(* whitespace, that starts at p                                            *)
RECURSIVE RepeatEnd(_, _, _)
RepeatEnd(text, p, tag) ==
  IF MatchAt(text, SkipSpace(text, p), tag, FALSE)
  THEN RepeatEnd(text, SkipSpace(text, p) + Len(tag), tag)
  ELSE p

(* line 86: a bracket, a non-empty name without closing bracket, a closing  *)
(* bracket, then one or more repetitions of the same tag: keep one         *)
RECURSIVE RemoveDuplicateTagsFrom(_, _)
RemoveDuplicateTagsFrom(text, i) ==
  IF i > Len(text) THEN <<>>
  ELSE LET j == FirstClose(text, i)
           tag == SubSeq(text, i, j)
       IN  IF text[i] = LB /\ j > i + 1 /\ RepeatEnd(text, j + 1, tag) > j + 1
           THEN tag \o RemoveDuplicateTagsFrom(text, RepeatEnd(text, j + 1, tag))
           ELSE <<text[i]>> \o RemoveDuplicateTagsFrom(text, i + 1)

RemoveDuplicateTags(text) == RemoveDuplicateTagsFrom(text, 1)

(* line 89: a space between a closing and an opening bracket *)
RECURSIVE SpaceTagsFrom(_, _)
SpaceTagsFrom(text, i) ==
  IF i > Len(text) THEN <<>>
  ELSE IF text[i] = RB /\ i < Len(text) /\ text[i + 1] = LB
       THEN <<RB, SP, LB>> \o SpaceTagsFrom(text, i + 2)
       ELSE <<text[i]>> \o SpaceTagsFrom(text, i + 1)

SpaceTags(text) == SpaceTagsFrom(text, 1)

(* line 92: remove brackets that hold nothing but whitespace *)
RECURSIVE RemoveEmptyTagsFrom(_, _)
RemoveEmptyTagsFrom(text, i) ==
  IF i > Len(text) THEN <<>>
  ELSE LET q == SkipSpace(text, i + 1)
       IN  IF text[i] = LB /\ q <= Len(text) /\ text[q] = RB
           THEN RemoveEmptyTagsFrom(text, q + 1)
           ELSE <<text[i]>> \o RemoveEmptyTagsFrom(text, i + 1)

RemoveEmptyTags(text) == RemoveEmptyTagsFrom(text, 1)

(* line 95: three or more newlines become two *)
RECURSIVE CollapseNewlinesFrom(_, _)
CollapseNewlinesFrom(text, i) ==
  IF i > Len(text) THEN <<>>
  ELSE IF text[i] = NL /\ RunEnd(text, i, NL) >= i + 3
       THEN <<NL, NL>> \o CollapseNewlinesFrom(text, RunEnd(text, i, NL))
       ELSE <<text[i]>> \o CollapseNewlinesFrom(text, i + 1)

CollapseNewlines(text) == CollapseNewlinesFrom(text, 1)

(* line 97: strip *)
Strip(text) ==
  IF \A i \in 1..Len(text) : text[i] \in WhiteSpace THEN <<>>
  ELSE LET first == CHOOSE i \in 1..Len(text) :
                      text[i] \notin WhiteSpace
                      /\ \A k \in 1..(i - 1) : text[k] \in WhiteSpace
           last == CHOOSE i \in 1..Len(text) :
                     text[i] \notin WhiteSpace
                     /\ \A k \in (i + 1)..Len(text) : text[k] \in WhiteSpace
       IN  SubSeq(text, first, last)

(* lines 69-74: what reaches the tag loops *)
CleanMarkup(text) ==
  ResolveConflicts(RemoveBold(RemoveCodeBlocks(StripStray(text))))

(* lines 85-97: what follows the tag loops *)
TidyTags(text) ==
  Strip(CollapseNewlines(RemoveEmptyTags(SpaceTags(RemoveDuplicateTags(text)))))

validate_suno_tags(text) ==
  IF text = <<>> THEN text
  ELSE TidyTags(StandardizeTags(CleanMarkup(text)))

(* text holds pat at some position *)
Contains(text, pat) == \E i \in 1..Len(text) : MatchAt(text, i, pat, FALSE)

(* ---------------------------------------------------------------------- *)
(* Python values the parser and the orchestrator handle                   *)
(* ---------------------------------------------------------------------- *)
Q == "\""
Apos == "'"
BS == "\\"

JStr(atoms) == [t |-> "str", v |-> atoms]
JNum(a) == [t |-> "num", v |-> <<a>>]
JLit(a) == [t |-> a, v |-> <<>>]
JArr(items) == [t |-> "arr", v |-> items]
(* a dict: its items in insertion order, each <<key, value>> *)
JObj(items) == [t |-> "obj", v |-> items]

(* number and literal atoms of a JSON text *)
JNumbers == {"0", "1", "5", "120"}
JLiterals == {"null", "true", "false"}

(* dict.get(key, default): the last item with the key wins in json.loads *)
DictGet(d, key, default) ==
  LET hits == {n \in 1..Len(d.v) : d.v[n][1] = key}
  IN  IF hits = {} THEN default ELSE d.v[Max(hits)][2]

DictHas(d, key) == \E n \in 1..Len(d.v) : d.v[n][1] = key

(* ---------------------------------------------------------------------- *)
(* json.loads: recursive descent over the atoms of the text                *)
(* ---------------------------------------------------------------------- *)
JFail == [ok |-> FALSE, val |-> JLit("null"), pos |-> 0]
JOk(val, pos) == [ok |-> TRUE, val |-> val, pos |-> pos]

(* the rest of a string literal from i on; acc is what it has decoded.      *)
(* A raw newline is a control character, which the strict decoder rejects; *)
(* a backslash takes the next atom as its escape                           *)
RECURSIVE ScanString(_, _, _)
ScanString(text, i, acc) ==
  IF i > Len(text) THEN JFail
  ELSE IF text[i] = Q THEN JOk(JStr(acc), i + 1)
  ELSE IF text[i] = NL THEN JFail
  ELSE IF text[i] = BS
       THEN IF i + 1 > Len(text) THEN JFail
            ELSE IF text[i + 1] = "n" THEN ScanString(text, i + 2, Append(acc, NL))
            ELSE IF text[i + 1] \in {Q, BS}
                 THEN ScanString(text, i + 2, Append(acc, text[i + 1]))
            ELSE JFail
  ELSE ScanString(text, i + 1, Append(acc, text[i]))

(* the decoder of json.loads: a value that starts at or after i; or the    *)
(* members of an object from i on, up to the closing brace; or the        *)
(* elements of an array from i on, up to the closing bracket.  acc holds   *)
(* the members or elements decoded so far                                 *)
RECURSIVE Decode(_, _, _, _)
Decode(what, text, i0, acc) ==
  IF what = "value"
  THEN LET i == SkipSpace(text, i0)
           inner == SkipSpace(text, i + 1)
       IN  IF i > Len(text) THEN JFail
           ELSE IF text[i] = Q THEN ScanString(text, i + 1, <<>>)
           ELSE IF text[i] = "{"
                THEN IF inner <= Len(text) /\ text[inner] = "}"
                     THEN JOk(JObj(<<>>), inner + 1)
                     ELSE Decode("members", text, inner, <<>>)
           ELSE IF text[i] = LB
                THEN IF inner <= Len(text) /\ text[inner] = RB
                     THEN JOk(JArr(<<>>), inner + 1)
                     ELSE Decode("elements", text, i + 1, <<>>)
           ELSE IF text[i] \in JNumbers THEN JOk(JNum(text[i]), i + 1)
           ELSE IF text[i] \in JLiterals THEN JOk(JLit(text[i]), i + 1)
           ELSE JFail
  ELSE IF what = "members"
  THEN IF i0 > Len(text) \/ text[i0] # Q THEN JFail
       ELSE LET key == ScanString(text, i0 + 1, <<>>)
                colon == SkipSpace(text, key.pos)
                val == Decode("value", text, colon + 1, <<>>)
                after == SkipSpace(text, val.pos)
                items == Append(acc, <<key.val.v, val.val>>)
            IN  IF ~key.ok \/ colon > Len(text) \/ text[colon] # ":"
                THEN JFail
                ELSE IF ~val.ok \/ after > Len(text) THEN JFail
                ELSE IF text[after] = "}" THEN JOk(JObj(items), after + 1)
                ELSE IF text[after] = ","
                     THEN Decode("members", text,
                                 SkipSpace(text, after + 1), items)
                ELSE JFail
  ELSE LET val == Decode("value", text, i0, <<>>)
           after == SkipSpace(text, val.pos)
           items == Append(acc, val.val)
       IN  IF ~val.ok \/ after > Len(text) THEN JFail
           ELSE IF text[after] = RB THEN JOk(JArr(items), after + 1)
           ELSE IF text[after] = ","
                THEN Decode("elements", text, after + 1, items)
           ELSE JFail

ParseValue(text, i) == Decode("value", text, i, <<>>)

(* json.loads(text): the value, or a failure where Python raises *)
json_loads(text) ==
  LET r == ParseValue(text, 1)
  IN  IF r.ok /\ SkipSpace(text, r.pos) > Len(text) THEN r ELSE JFail

(* ---------------------------------------------------------------------- *)
(* clean_json_response                                                     *)
(* ---------------------------------------------------------------------- *)
Quotes == {Q, Apos}

(* lines 105-106: a fence, the word json if it follows, and the whitespace  *)
(* after them                                                              *)
RECURSIVE RemoveFenceMarksFrom(_, _)
RemoveFenceMarksFrom(text, i) ==
  IF i > Len(text) THEN <<>>
  ELSE IF text[i] = Fence
       THEN IF i < Len(text) /\ text[i + 1] = "json"
            THEN RemoveFenceMarksFrom(text, SkipSpace(text, i + 2))
            ELSE RemoveFenceMarksFrom(text, SkipSpace(text, i + 1))
       ELSE <<text[i]>> \o RemoveFenceMarksFrom(text, i + 1)

RemoveFenceMarks(text) == Strip(RemoveFenceMarksFrom(text, 1))

(* line 116: the span from the first opening brace to the last closing one *)
BraceSpan(text) ==
  LET opens == {i \in 1..Len(text) : text[i] = "{"}
      first == CHOOSE i \in opens : \A j \in opens : i <= j
      closes == {i \in 1..Len(text) : text[i] = "}" /\ i > first}
  IN  IF opens = {} \/ closes = {} THEN <<>>
      ELSE SubSeq(text, first, Max(closes))

(* the index after: the key word at p, an optional quote, optional          *)
(* whitespace, a colon or an equals sign; 0 when text does not go on so    *)
KeyEnd(text, p, key) ==
  LET q == IF p < Len(text) /\ text[p + 1] \in Quotes THEN p + 2 ELSE p + 1
      c == SkipSpace(text, q)
  IN  IF Lower(text[p]) = key /\ c <= Len(text) /\ text[c] \in {":", "="}
      THEN c + 1 ELSE 0

(* the index of the first quote at or after i, 0 when there is none *)
NextQuote(text, i) ==
  LET qs == {j \in i..Len(text) : text[j] \in Quotes}
  IN  IF qs = {} THEN 0 ELSE CHOOSE j \in qs : \A k \in qs : j <= k

(* lines 127 and 132: where the value of key starts and ends when the       *)
(* pattern matches at p: a quote, one or more atoms that are no quote, a   *)
(* quote; <<0, 0>> when it does not match                                  *)
QuotedValueAt(text, p, key) ==
  LET e == KeyEnd(text, p, key)
      o == SkipSpace(text, e)
      c == NextQuote(text, o + 1)
  IN  IF e # 0 /\ o <= Len(text) /\ text[o] \in Quotes /\ c > o + 1
      THEN <<o + 1, c - 1>> ELSE <<0, 0>>

(* re.search: the leftmost position where the pattern matches, 0 for none *)
FirstQuotedValue(text, key) ==
  LET ps == {p \in 1..Len(text) : QuotedValueAt(text, p, key)[1] # 0}
  IN  IF ps = {} THEN 0 ELSE CHOOSE p \in ps : \A r \in ps : p <= r

(* a quote at c closes the lyrics value: optional whitespace and then a     *)
(* closing brace or a comma follow it                                      *)
ClosesLyrics(text, c) ==
  /\ text[c] \in Quotes
  /\ SkipSpace(text, c + 1) <= Len(text)
  /\ text[SkipSpace(text, c + 1)] \in {"}", ","}

(* line 137: the lazy lyrics value when the pattern matches at p *)
LyricsValueAt(text, p) ==
  LET e == KeyEnd(text, p, "lyrics")
      o == SkipSpace(text, e)
      cs == {c \in (o + 1)..Len(text) : ClosesLyrics(text, c)}
  IN  IF e # 0 /\ o <= Len(text) /\ text[o] \in Quotes /\ cs # {}
      THEN <<o + 1, (CHOOSE c \in cs : \A d \in cs : c <= d) - 1>>
      ELSE <<0, 0>>

FirstLyricsValue(text) ==
  LET ps == {p \in 1..Len(text) : LyricsValueAt(text, p)[1] # 0}
  IN  IF ps = {} THEN 0 ELSE CHOOSE p \in ps : \A r \in ps : p <= r

(* str.strip(chars) *)
StripChars(text, chars) ==
  IF \A i \in 1..Len(text) : text[i] \in chars THEN <<>>
  ELSE LET first == CHOOSE i \in 1..Len(text) :
                      text[i] \notin chars /\ \A k \in 1..(i - 1) : text[k] \in chars
           last == CHOOSE i \in 1..Len(text) :
                     text[i] \notin chars
                     /\ \A k \in (i + 1)..Len(text) : text[k] \in chars
       IN  SubSeq(text, first, last)

(* lines 142-144: what follows the last title or style_prompt key, without  *)
(* the quotes, commas, braces and spaces at its ends; none without a key   *)
AfterLastKey(text) ==
  LET ends == {KeyEnd(text, p, "title") : p \in 1..Len(text)}
                \cup {KeyEnd(text, p, "style_prompt") : p \in 1..Len(text)}
  IN  IF ends = {0} \/ ends = {} THEN [found |-> FALSE, value |-> <<>>]
      ELSE [found |-> TRUE,
            value |-> StripChars(SubSeq(text, Max(ends), Len(text)),
                                 {Q, Apos, ",", "}", SP})]

(* lines 124-144: the dict the third tier fills *)
ExtractFields(text) ==
  LET tp == FirstQuotedValue(text, "title")
      tv == QuotedValueAt(text, tp, "title")
      sp == FirstQuotedValue(text, "style_prompt")
      sv == QuotedValueAt(text, sp, "style_prompt")
      lp == FirstLyricsValue(text)
      lv == LyricsValueAt(text, lp)
      title == IF tp = 0 THEN <<>>
               ELSE << <<(<<"title">>), JStr(Strip(SubSeq(text, tv[1], tv[2])))>> >>
      style == IF sp = 0 THEN <<>>
               ELSE << <<(<<"style_prompt">>), JStr(Strip(SubSeq(text, sv[1], sv[2])))>> >>
      lyrics == IF lp # 0
                THEN << <<(<<"lyrics">>), JStr(Strip(SubSeq(text, lv[1], lv[2])))>> >>
                ELSE IF AfterLastKey(text).found
                     THEN << <<(<<"lyrics">>), JStr(AfterLastKey(text).value)>> >>
                     ELSE <<>>
  IN  JObj(title \o style \o lyrics)

(* the number of characters an atom stands for: a word atom is the word,   *)
(* the fence atom is three backticks, every other atom is one character   *)
WordWidths ==
  << <<"Here", 4>>, <<"is", 2>>, <<"your", 4>>, <<"song", 4>>,
     <<"Sure", 4>>, <<"json", 4>>, <<"title", 5>>, <<"lyrics", 6>>,
     <<"style_prompt", 12>>, <<"Neon Drift", 10>>, <<"Untitled", 8>>,
     <<"hello", 5>>, <<"Verse", 5>>, <<"female", 6>>, <<"vocal", 5>>,
     <<"Reverb", 6>>, <<"Style", 5>>, <<"pop", 3>>, <<"null", 4>>,
     <<"true", 4>>, <<"false", 5>>, <<"120", 3>>, <<Fence, 3>> >>

Width(atom) ==
  LET rows == {n \in 1..Len(WordWidths) : WordWidths[n][1] = atom}
  IN  IF rows = {} THEN 1 ELSE WordWidths[CHOOSE n \in rows : TRUE][2]

(* line 149: the slice bound of the excerpt *)
RawLimit == 200

(* the atoms of text from i on that fit into room characters; a word atom  *)
(* the slice would cut in two is left out as a whole                       *)
RECURSIVE ExcerptFrom(_, _, _)
ExcerptFrom(text, i, room) ==
  IF i > Len(text) \/ Width(text[i]) > room THEN <<>>
  ELSE <<text[i]>> \o ExcerptFrom(text, i + 1, room - Width(text[i]))

(* line 149: text[:200] *)
Excerpt(text) == ExcerptFrom(text, 1, RawLimit)

(* the dicts of lines 102, 111, 119, 147 and 149 as one record shape: a    *)
(* key the dict lacks is shown by error "", data null; raw is the empty    *)
(* tuple when the dict has no raw key and a tuple of the excerpt when it   *)
(* has one                                                                 *)
ParseFailure(error, raw) ==
  [success |-> FALSE, error |-> error, data |-> JLit("null"), raw |-> raw]

ParseSuccess(data) ==
  [success |-> TRUE, error |-> "", data |-> data, raw |-> <<>>]

(* the tiers if the brace span were tried before the whole text *)
SpanBeforeWhole(whole, span, fields, text) ==
  IF span.ok THEN ParseSuccess(span.val)
  ELSE IF whole.ok THEN ParseSuccess(whole.val)
  ELSE IF DictHas(fields, <<"lyrics">>) /\ DictHas(fields, <<"title">>)
       THEN ParseSuccess(fields)
  ELSE ParseFailure("Could not parse required fields from response",
                    <<Excerpt(text)>>)

(* lines 109-149: the first tier that succeeds, given what json.loads made *)
(* of the whole text and of the brace span, and the fields the patterns    *)
(* found; the failure of line 149 carries the excerpt                      *)
FirstSuccess(whole, span, fields, text) ==
  IF whole.ok THEN ParseSuccess(whole.val)
  ELSE IF span.ok THEN ParseSuccess(span.val)
  ELSE IF DictHas(fields, <<"lyrics">>) /\ DictHas(fields, <<"title">>)
       THEN ParseSuccess(fields)
  ELSE ParseFailure("Could not parse required fields from response",
                    <<Excerpt(text)>>)

(* lines 109-149 for the text that lines 105-107 left *)
ParseTiers(text) ==
  FirstSuccess(json_loads(text), json_loads(BraceSpan(text)),
               ExtractFields(text), text)

(* lines 99-149 *)
clean_json_response(text0) ==
  IF text0 = <<>> THEN ParseFailure("Empty response", <<>>)
  ELSE ParseTiers(RemoveFenceMarks(text0))

(* ---------------------------------------------------------------------- *)
(* Style resolution                                                       *)
(* ---------------------------------------------------------------------- *)

ARTIST_STYLE_GUIDE ==
  << [key |-> <<"r", "o", "s", "a", "l", "i_acute", "a">>,
      style |-> <<"flamenco-pop, palmas handclaps, reggaeton beats, auto-tuned vocals, spanish guitar, minimalist production, dramatic dynamics">>],
     [key |-> <<"d", "a", "f", "t", " ", "p", "u", "n", "k">>,
      style |-> <<"french house, filtered disco samples, talkbox vocals, analog synths, sidechain compression, robotic effects, funky basslines">>],
     [key |-> <<"t", "h", "e", " ", "w", "e", "e", "k", "n", "d">>,
      style |-> <<"dark r&b, synthwave influences, falsetto vocals, reverb-heavy production, 80s drum machines, atmospheric pads, melancholic mood">>],
     [key |-> <<"t", "a", "y", "l", "o", "r", " ", "s", "w", "i", "f", "t">>,
      style |-> <<"pop-country crossover, storytelling lyrics, acoustic guitar foundation, polished production, catchy hooks, emotional vocal delivery">>],
     [key |-> <<"k", "e", "n", "d", "r", "i", "c", "k", " ", "l", "a", "m", "a", "r">>,
      style |-> <<"conscious hip-hop, jazz samples, complex rhyme schemes, dynamic flow switches, layered vocals, social commentary, experimental production">>],
     [key |-> <<"b", "i", "l", "l", "i", "e", " ", "e", "i", "l", "i", "s", "h">>,
      style |-> <<"minimalist pop, whispered vocals, sub-bass drops, ASMR-style production, dark lyrics, intimate recording style, innovative sound design">>],
     [key |-> <<"b", "a", "d", " ", "b", "u", "n", "n", "y">>,
      style |-> <<"latin trap, reggaeton dembow, melodic rap, caribbean percussion, auto-tune melodies, party anthems, spanish lyrics">>],
     [key |-> <<"h", "a", "n", "s", " ", "z", "i", "m", "m", "e", "r">>,
      style |-> <<"cinematic orchestral, epic brass swells, hybrid electronic-orchestral, powerful percussion, emotional string arrangements, dramatic dynamics">>] >>

style_templates ==
  << [key |-> <<"p", "o", "p">>,
      style |-> <<"modern pop, polished production, catchy hooks, synth bass, programmed drums">>],
     [key |-> <<"r", "o", "c", "k">>,
      style |-> <<"driving rock, electric guitars, live drums", ",", " ", "energetic", ",", " ", "powerful vocals">>],
     [key |-> <<"h", "i", "p", " ", "h", "o", "p">>,
      style |-> <<"boom bap or trap, 808s, rhythmic flow, urban production, confident delivery">>],
     [key |-> <<"e", "l", "e", "c", "t", "r", "o", "n", "i", "c">>,
      style |-> <<"electronic dance, synth leads, four-on-floor beat", ",", " ", "energetic", " ", "drops, festival sound">>],
     [key |-> <<"a", "c", "o", "u", "s", "t", "i", "c">>,
      style |-> <<"acoustic folk, fingerstyle guitar, warm vocals, intimate recording, organic feel">>],
     [key |-> <<"r", "&", "b">>,
      style |-> <<"smooth r&b, soulful vocals, laid-back groove, warm bass, emotional delivery">>],
     [key |-> <<"l", "a", "t", "i", "n">>,
      style |-> <<"latin pop or reggaeton, percussion-driven, rhythmic vocals, vibrant production">>],
     [key |-> <<"j", "a", "z", "z">>,
      style |-> <<"jazz ensemble, upright bass, brushed drums, improvisational, sophisticated harmony">>] >>

MAX_MODE_TAGS ==
  <<LB, "Is_MAX_MODE: MAX", RB>>
  \o <<NL>> \o <<LB, "QUALITY: MASTERING_GRADE", RB>>
  \o <<NL>> \o <<LB, "REALISM: STUDIO_RECORDING", RB>>
  \o <<NL>> \o <<LB, "REAL_INSTRUMENTS: TRUE", RB>>
  \o <<NL>> \o <<LB, "AUDIO_SPEC: 24-bit_96kHz_WIDE_STEREO", RB>>
  \o <<NL>> \o <<LB, "PRODUCTION: PROFESSIONAL_MIX", RB>>

(* str in str: needle occurs in hay as a run of characters *)
IsSubstring(needle, hay) ==
  \E i \in 1..(Len(hay) - Len(needle) + 1) :
    SubSeq(hay, i, i + Len(needle) - 1) = needle

(* the first entry of table that accepts the genre, 0 when none does *)
FirstEntry(table, Accepts(_)) ==
  LET hits == {n \in 1..Len(table) : Accepts(table[n].key)}
  IN  IF hits = {} THEN 0 ELSE CHOOSE n \in hits : \A m \in hits : n <= m

(* lines 212 and 235: the BPM clause, left out when bpm.upper() is AUTO *)
bpm_part(bpm_) ==
  IF UpperSeq(bpm_) # <<"AUTO">> THEN <<",", SP, "BPM", ":", SP>> \o bpm_
  ELSE <<>>

(* lines 203-236, the genre given character by character *)
generate_style_prompt(genre_, bpm_, artist_guide) ==
  LET genre_clean == LowerSeq(Strip(genre_))
      IsArtist(artist_key) == \/ IsSubstring(artist_key, genre_clean)
                              \/ IsSubstring(genre_clean, artist_key)
      IsTemplate(key) == IsSubstring(key, genre_clean)
      artist == FirstEntry(artist_guide, IsArtist)
      template == FirstEntry(style_templates, IsTemplate)
      fallback == <<"contemporary production, melodic, emotional vocals">>
  IN  IF artist # 0 THEN artist_guide[artist].style \o bpm_part(bpm_)
      ELSE IF template # 0
           THEN style_templates[template].style \o bpm_part(bpm_)
      ELSE fallback \o bpm_part(bpm_)

(* ---------------------------------------------------------------------- *)
(* Requests and backend replies                                           *)
(* ---------------------------------------------------------------------- *)

(* a key of the config dict is absent, written as the empty tuple, or     *)
(* present with a value, written as a tuple of that value                 *)
Absent == <<>>
Present(value) == <<value>>

(* dict.get(key, default) on the config *)
ConfigGet(config_, key, default) ==
  IF config_[key] = Absent THEN default ELSE config_[key][1]

Genres ==
  { <<>>, <<SP, SP>>,
    <<"p", "o", "p">>,
    <<"T", "h", "e", SP, "W", "e", "e", "k", "n", "d">>,
    <<"p", "u", "n", "k">>,
    <<"a">>,
    <<SP, "R", "o", "c", "k", SP>>,
    <<"z", "z">> }

Topics == { <<>>, <<SP>>, <<"love">> }

Bpms == { <<"AUTO">>, <<"auto">>, <<"120">>, <<>> }

Configs ==
  [genre : {Absent} \cup {Present(g) : g \in Genres},
   topic : {Absent} \cup {Present(t) : t \in Topics},
   bpm : {Absent} \cup {Present(b) : b \in Bpms},
   vocalType : {Absent},
   duration : {Absent}]

(* os.getenv of GROQ_API_KEY: None when unset, else the string stored *)
ApiKeys == {Absent, Present(""), Present("gsk_key")}

(* json.dumps of a string value: the newline is written as an escape *)
RECURSIVE Escaped(_)
Escaped(text) ==
  IF text = <<>> THEN <<>>
  ELSE (IF Head(text) = NL THEN <<BS, "n">> ELSE <<Head(text)>>)
       \o Escaped(Tail(text))

Quoted(text) == <<Q>> \o Escaped(text) \o <<Q>>

(* the reply the system prompt asks for: an object with title and lyrics *)
ObjectReply(title, lyrics) ==
  <<"{">> \o Quoted(<<"title">>) \o <<":", SP>> \o title \o <<",", SP>>
  \o Quoted(<<"lyrics">>) \o <<":", SP>> \o lyrics \o <<"}">>

MaxLyricPieces == 2

LyricPieces ==
  { <<LB, "Verse", RB>>, <<NL>>, <<"hello">>,
    <<LB, "female", SP, "vocal", RB>>,
    <<LB, "Reverb", RB>>,
    <<LB, "Style", ":", SP, "pop", RB>> }

RECURSIVE BodiesOf(_)
BodiesOf(n) ==
  IF n = 0 THEN {<<>>}
  ELSE LET shorter == BodiesOf(n - 1)
       IN  shorter \cup {b \o p : b \in shorter, p \in LyricPieces}

LyricBodies == BodiesOf(MaxLyricPieces)

NeonDrift == <<"Neon Drift">>

(* replies that are an object whose title and lyrics are strings *)
WellFormedReplies ==
  {ObjectReply(Quoted(NeonDrift), Quoted(b)) : b \in LyricBodies}

(* a reply of prose longer than the excerpt line 149 keeps: the word hello *)
(* MaxProseLen times over, 205 characters                                 *)
MaxProseLen == 41
LongProse == [n \in 1..MaxProseLen |-> "hello"]

(* replies of every other kind: an empty title, prose, a fenced object,    *)
(* an object inside prose, an object json.loads rejects, JSON that is no   *)
(* object, and objects whose title or lyrics is missing or no string       *)
OddReplies ==
  { <<>>,
    ObjectReply(Quoted(<<SP>>), Quoted(<<"hello">>)),
    <<"Here", SP, "is", SP, "your", SP, "song">>,
    <<Fence, "json", NL>>
      \o ObjectReply(Quoted(NeonDrift), Quoted(<<LB, "Verse", RB>>))
      \o <<NL, Fence>>,
    <<"Sure", ":", SP>>
      \o ObjectReply(Quoted(NeonDrift), Quoted(<<"hello">>)),
    <<"{">> \o Quoted(<<"title">>) \o <<":", SP>> \o Quoted(NeonDrift)
      \o <<",", SP>> \o Quoted(<<"lyrics">>) \o <<":", SP>>
      \o Quoted(<<"hello">>) \o <<",", "}">>,
    <<LB>> \o ObjectReply(Quoted(NeonDrift), Quoted(<<"hello">>)) \o <<RB>>,
    LongProse,
    <<LB, "1", ",", SP, "5", RB>>,
    <<"5">>,
    <<"null">>,
    Quoted(<<"hello">>),
    <<"{", "}">>,
    <<"{">> \o Quoted(<<"lyrics">>) \o <<":", SP>>
      \o Quoted(<<"hello">>) \o <<"}">>,
    <<"{">> \o Quoted(<<"title">>) \o <<":", SP>>
      \o Quoted(NeonDrift) \o <<"}">>,
    ObjectReply(<<"5">>, Quoted(<<"hello">>)),
    ObjectReply(<<"null">>, Quoted(<<"hello">>)),
    ObjectReply(Quoted(NeonDrift), <<"5">>),
    ObjectReply(Quoted(NeonDrift), <<"0">>),
    ObjectReply(Quoted(NeonDrift), <<"null">>),
    ObjectReply(Quoted(NeonDrift), <<LB, RB>>),
    ObjectReply(Quoted(NeonDrift), <<"{", "}">>),
    ObjectReply(Quoted(NeonDrift), <<LB, Q, "hello", Q, RB>>) }

Replies == WellFormedReplies \cup OddReplies

(* what requests.post and the calls on its response can do: answer with   *)
(* a status, raise (timeout, connection), or answer 200 with a body that   *)
(* is no JSON, that lacks the path choices[0].message.content, or that     *)
(* holds a content string                                                 *)
Responses ==
  {[kind |-> k, content |-> <<>>] :
     k \in {"429", "401", "500", "404", "transport", "not json",
            "no content"}}
  \cup {[kind |-> "200", content |-> r] : r \in Replies}

NoResponse == [kind |-> "none", content |-> <<>>]

(* ---------------------------------------------------------------------- *)
(* generate_with_groq and generate_suno_prompt                            *)
(* ---------------------------------------------------------------------- *)

(* not x, for x the value of os.getenv *)
NoKey(key) == key = Absent \/ key = Present("")

(* not x, for x a value json.loads returned *)
Falsy(val) ==
  \/ val.t \in {"null", "false"}
  \/ val.t = "num" /\ val.v = <<"0">>
  \/ val.t \in {"str", "arr", "obj"} /\ val.v = <<>>

(* a failure of generate_with_groq; error is the message in its parts *)
Failed(error) ==
  [success |-> FALSE, error |-> error, data |-> JLit("null"), raw |-> <<>>]

NoLyricsResult == Failed(<<"not called">>)

(* the value generate_suno_prompt returned; NotReturned while it runs or  *)
(* when an exception left it                                              *)
NotReturned == [returned |-> FALSE]

ErrorResult(message) == [error |-> message]

(* the adapter if it reported every parser result as a success *)
ParsedAsSuccess(parsed) ==
  [success |-> TRUE,
   error |-> IF parsed.success THEN <<>> ELSE <<parsed.error>>,
   data |-> parsed.data, raw |-> parsed.raw]

(* lines 194-196: the dict of the parser is the dict the adapter returns *)
Parsed(parsed) ==
  [success |-> parsed.success,
   error |-> IF parsed.success THEN <<>> ELSE <<parsed.error>>,
   data |-> parsed.data, raw |-> parsed.raw]

(* lines 184-201: the result of generate_with_groq for what the POST did. *)
(* An error is the fixed text of the code, followed for the except clause  *)
(* of line 200 by str(e) of the exception it caught: raise_for_status on a *)
(* 500 or on the 404 of a model the provider does not know, a timeout of   *)
(* requests.post, response.json() on a body that is no JSON, the missing   *)
(* key choices                                                             *)
GroqResult(response_) ==
  CASE response_.kind = "429" -> Failed(<<"Rate limit. Wait 10s and retry.">>)
    [] response_.kind = "401" -> Failed(<<"Invalid Groq API key">>)
    [] response_.kind = "500" -> Failed(<<"Groq error: ", "500 Server Error">>)
    [] response_.kind = "404" -> Failed(<<"Groq error: ", "404 Client Error">>)
    [] response_.kind = "transport" -> Failed(<<"Groq error: ", "timed out">>)
    [] response_.kind = "not json" -> Failed(<<"Groq error: ", "Expecting value">>)
    [] response_.kind = "no content" -> Failed(<<"Groq error: ", "'choices'">>)
    [] OTHER -> Parsed(clean_json_response(Strip(response_.content)))

(* the title if a blank one were not replaced *)
TitleAsGiven(content) ==
  Strip(DictGet(content, <<"title">>, JStr(<<"Untitled">>)).v)

(* line 356: content.get of title, strip, or Untitled *)
TitleOf(content) ==
  LET given == DictGet(content, <<"title">>, JStr(<<"Untitled">>))
  IN  IF Strip(given.v) = <<>> THEN <<"Untitled">> ELSE Strip(given.v)

(* line 364: the synthesized leading tags in front of the cleaned lyrics *)
WithLeadingTags(cleaned_lyrics, vocal_type, genre_, duration, bpm_) ==
  <<LB, "Style", ":", SP, vocal_type, SP, "Vocal", ",", SP>> \o genre_
  \o <<RB, NL, LB, "Duration", ":", SP, duration, RB, NL>>
  \o (IF UpperSeq(bpm_) # <<"AUTO">>
      THEN <<LB, "BPM", ":", SP>> \o bpm_ \o <<RB>> ELSE <<>>)
  \o <<NL, NL>> \o cleaned_lyrics

StyleTagOpening == <<LB, "Style", ":">>

(* str() of the falsy values validate_suno_tags hands back untouched *)
Shown(val) ==
  IF val.t = "arr" THEN <<LB, RB>>
  ELSE IF val.t = "obj" THEN <<"{", "}">>
  ELSE <<>>

(* lines 360-367 for the lyrics value raw_lyrics of the reply *)
LyricsOf(raw_lyrics, vocal_type, genre_, duration, bpm_) ==
  LET cleaned_lyrics == IF raw_lyrics.t = "str"
                        THEN validate_suno_tags(raw_lyrics.v)
                        ELSE Shown(raw_lyrics)
      tagged == IF raw_lyrics.t = "str"
                   /\ Contains(cleaned_lyrics, StyleTagOpening)
                THEN cleaned_lyrics
                ELSE WithLeadingTags(cleaned_lyrics, vocal_type, genre_,
                                     duration, bpm_)
  IN  StripStray(tagged)

(* lines 355-367 raise: content has no get (AttributeError), the title    *)
(* has no strip (AttributeError), the lyrics are truthy and no string     *)
(* (TypeError in re.sub), or falsy and no container (TypeError in the     *)
(* containment test)                                                      *)
Raises(content) ==
  \/ content.t # "obj"
  \/ DictGet(content, <<"title">>, JStr(<<"Untitled">>)).t # "str"
  \/ LET raw_lyrics == DictGet(content, <<"lyrics">>, JStr(<<>>))
     IN  /\ raw_lyrics.t # "str"
         /\ ~(Falsy(raw_lyrics) /\ raw_lyrics.t \in {"arr", "obj"})

Idle ==
  /\ genre = <<>>
  /\ topic = <<>>
  /\ bpm = <<>>
  /\ style_prompt = <<>>
  /\ lyrics_prompt = "none"
  /\ response = NoResponse
  /\ lyrics_result = NoLyricsResult
  /\ result = NotReturned
  /\ calls = 0

(* a call generate_suno_prompt(config, max_mode, vocal_directing) starts *)
Init ==
  /\ api_key \in ApiKeys
  /\ config \in Configs
  /\ max_mode \in BOOLEAN
  /\ vocal_directing \in BOOLEAN
  /\ Idle
  /\ pc = "credential"
  /\ ntext = <<>>
  /\ nout = <<>>
  /\ nagain = <<>>
  /\ npc = "unused"

(* lines 314-316 *)
CheckCredential ==
  /\ pc = "credential"
  /\ IF NoKey(api_key)
     THEN /\ result' = ErrorResult(<<"GROQ_API_KEY not set in Streamlit Secrets">>)
          /\ pc' = "returned"
     ELSE /\ pc' = "extract"
          /\ UNCHANGED result
  /\ UNCHANGED <<nvars, api_key, config, max_mode, vocal_directing, genre,
                 topic, bpm, style_prompt, lyrics_prompt, response,
                 lyrics_result, calls>>

(* the validation if genre and topic were tested as given, not stripped *)
ValidateUnstripped ==
  /\ pc = "extract"
  /\ genre' = Strip(ConfigGet(config, "genre", <<>>))
  /\ topic' = Strip(ConfigGet(config, "topic", <<>>))
  /\ bpm' = Strip(ConfigGet(config, "bpm", <<"AUTO">>))
  /\ IF ConfigGet(config, "genre", <<>>) = <<>>
        \/ ConfigGet(config, "topic", <<>>) = <<>>
     THEN /\ result' = ErrorResult(<<"Genre and Creative Prompt are required">>)
          /\ pc' = "returned"
     ELSE /\ pc' = "style"
          /\ UNCHANGED result
  /\ UNCHANGED <<nvars, api_key, config, max_mode, vocal_directing,
                 style_prompt, lyrics_prompt, response, lyrics_result,
                 calls>>

(* lines 319-327 *)
ValidateRequest ==
  /\ pc = "extract"
  /\ genre' = Strip(ConfigGet(config, "genre", <<>>))
  /\ topic' = Strip(ConfigGet(config, "topic", <<>>))
  /\ bpm' = Strip(ConfigGet(config, "bpm", <<"AUTO">>))
  /\ IF genre' = <<>> \/ topic' = <<>>
     THEN /\ result' = ErrorResult(<<"Genre and Creative Prompt are required">>)
          /\ pc' = "returned"
     ELSE /\ pc' = "style"
          /\ UNCHANGED result
  /\ UNCHANGED <<nvars, api_key, config, max_mode, vocal_directing,
                 style_prompt, lyrics_prompt, response, lyrics_result,
                 calls>>

(* the style step if the block were put after the style text *)
ResolveStyleBlockLast ==
  /\ pc = "style"
  /\ style_prompt' =
       LET resolved == generate_style_prompt(genre, bpm, ARTIST_STYLE_GUIDE)
       IN  IF max_mode THEN resolved \o <<NL>> \o MAX_MODE_TAGS
           ELSE resolved
  /\ pc' = "lyrics"
  /\ UNCHANGED <<nvars, api_key, config, max_mode, vocal_directing, genre,
                 topic, bpm, lyrics_prompt, response, lyrics_result, result,
                 calls>>

(* lines 330-334 *)
ResolveStyle ==
  /\ pc = "style"
  /\ style_prompt' =
       LET resolved == generate_style_prompt(genre, bpm, ARTIST_STYLE_GUIDE)
       IN  IF max_mode THEN MAX_MODE_TAGS \o <<NL>> \o resolved
           ELSE resolved
  /\ pc' = "lyrics"
  /\ UNCHANGED <<nvars, api_key, config, max_mode, vocal_directing, genre,
                 topic, bpm, lyrics_prompt, response, lyrics_result, result,
                 calls>>

(* lines 337-349 and 153-182: the prompt is chosen, generate_with_groq is *)
(* entered and the request is posted                                      *)
PostRequest ==
  /\ pc = "lyrics"
  /\ lyrics_prompt' = IF vocal_directing THEN "vocal directing" ELSE "simple"
  /\ IF NoKey(api_key)
     THEN /\ lyrics_result' = Failed(<<"Groq API key required">>)
          /\ pc' = "process"
          /\ UNCHANGED <<response, calls>>
     ELSE /\ \E r \in Responses : response' = r
          /\ calls' = calls + 1
          /\ pc' = "respond"
          /\ UNCHANGED lyrics_result
  /\ UNCHANGED <<nvars, api_key, config, max_mode, vocal_directing, genre,
                 topic, bpm, style_prompt, result>>

(* the adapter if it posted the request once more after a 429 *)
HandleResponseWithRetry ==
  /\ pc = "respond"
  /\ IF response.kind = "429" /\ calls < 2
     THEN /\ pc' = "lyrics"
          /\ UNCHANGED lyrics_result
     ELSE /\ lyrics_result' = GroqResult(response)
          /\ pc' = "process"
  /\ UNCHANGED <<nvars, api_key, config, max_mode, vocal_directing, genre,
                 topic, bpm, style_prompt, lyrics_prompt, response, result,
                 calls>>

(* lines 184-201 *)
HandleResponse ==
  /\ pc = "respond"
  /\ lyrics_result' = GroqResult(response)
  /\ pc' = "process"
  /\ UNCHANGED <<nvars, api_key, config, max_mode, vocal_directing, genre,
                 topic, bpm, style_prompt, lyrics_prompt, response, result,
                 calls>>

(* lines 351-375 *)
FinishGeneration ==
  /\ pc = "process"
  /\ IF ~lyrics_result.success
     THEN /\ result' = ErrorResult(<<"Lyrics generation failed: ">>
                                   \o lyrics_result.error)
          /\ pc' = "returned"
     ELSE LET content == lyrics_result.data
              vocal_type == ConfigGet(config, "vocalType", "Male")
              duration == ConfigGet(config, "duration", "2:30min")
          IN  IF Raises(content)
              THEN /\ pc' = "raised"
                   /\ UNCHANGED result
              ELSE /\ result' =
                        [success |-> TRUE,
                         style_prompt |-> validate_suno_tags(style_prompt),
                         title |-> TitleOf(content),
                         lyrics |-> LyricsOf(DictGet(content, <<"lyrics">>,
                                                     JStr(<<>>)),
                                             vocal_type, genre, duration,
                                             bpm),
                         backend_used |-> "groq"]
                   /\ pc' = "returned"
  /\ UNCHANGED <<nvars, api_key, config, max_mode, vocal_directing, genre,
                 topic, bpm, style_prompt, lyrics_prompt, response,
                 lyrics_result, calls>>

Next ==
  \/ CheckCredential
  \/ ValidateRequest
  \/ ResolveStyle
  \/ PostRequest
  \/ HandleResponse
  \/ FinishGeneration

Spec == Init /\ [][Next]_vars

(* ---------------------------------------------------------------------- *)
(* The sanitizer applied to bounded texts, once and then to its own output *)
(* ---------------------------------------------------------------------- *)

(* how many pieces an input text of the sanitizer is put together from *)
MaxPieces == 3

NormPieces ==
  { <<LB, "verse", RB>>, <<LB, "VERSE", RB>>, <<LB, "verse", SP, "1", RB>>,
    <<LB, "female", SP, "vocal", RB>>, <<LB, RB>>, <<LB>>, <<RB>>,
    <<SP>>, <<NL>>, <<"{">>, <<Fence>>, <<"Upbeat">>, <<"chill">>, <<"la">> }

RECURSIVE TextsOf(_)
TextsOf(n) ==
  IF n = 0 THEN {<<>>}
  ELSE LET shorter == TextsOf(n - 1)
       IN  shorter \cup {t \o p : t \in shorter, p \in NormPieces}

NormInit ==
  /\ ntext \in TextsOf(MaxPieces)
  /\ nout = <<>>
  /\ nagain = <<>>
  /\ npc = "input"
  /\ api_key = Absent
  /\ config = [genre |-> Absent, topic |-> Absent, bpm |-> Absent,
               vocalType |-> Absent, duration |-> Absent]
  /\ max_mode = TRUE
  /\ vocal_directing = TRUE
  /\ Idle
  /\ pc = "unused"

(* text = validate_suno_tags(text) *)
Normalize ==
  /\ npc = "input"
  /\ nout' = validate_suno_tags(ntext)
  /\ npc' = "once"
  /\ UNCHANGED <<ntext, nagain, gvars>>

(* the caller hands the result to validate_suno_tags again *)
Renormalize ==
  /\ npc = "once"
  /\ nagain' = validate_suno_tags(nout)
  /\ npc' = "twice"
  /\ UNCHANGED <<ntext, nout, gvars>>

NormNext == Normalize \/ Renormalize

SpecNorm == NormInit /\ [][NormNext]_vars

(* ---------------------------------------------------------------------- *)
(* Reading tags off a text                                                *)
(* ---------------------------------------------------------------------- *)

(* the bracket pairs of text that hold a name without brackets: <<i, j>> *)
TagSpans(text) ==
  {<<i, FirstClose(text, i)>> :
     i \in {i \in 1..Len(text) :
              /\ text[i] = LB
              /\ FirstClose(text, i) > i + 1
              /\ \A k \in (i + 1)..(FirstClose(text, i) - 1) : text[k] # LB}}

NameOf(text, span) == SubSeq(text, span[1] + 1, span[2] - 1)

(* the four vocabularies whose entries have a stored spelling *)
Vocabulary == SUNO_STRUCTURE \o SUNO_VOCALS \o SUNO_DELIVERY \o SUNO_EFFECTS

(* the vocabulary entries a name equals ignoring case *)
EntriesFor(name) ==
  {n \in 1..Len(Vocabulary) : LowerSeq(Vocabulary[n]) = LowerSeq(name)}

(* two equal tags follow each other with nothing but whitespace between *)
HasRepeatedTag(text) ==
  \E span \in TagSpans(text) :
    MatchAt(text, SkipSpace(text, span[2] + 1),
            SubSeq(text, span[1], span[2]), FALSE)

(* C7: validate_suno_tags is idempotent: sanitizing a sanitized text        *)
(* changes nothing, for every input text                                  *)
C7_Idempotent == npc = "twice" => nagain = nout

(* C8: the output of validate_suno_tags never holds two identical bracket   *)
(* tags in a row separated only by whitespace                             *)
C8_NoRepeatedTag == npc # "input" => ~HasRepeatedTag(nout)

(* a label: a name with a word in it and no run of three newlines *)
IsLabel(name) ==
  /\ \E k \in 1..Len(name) : name[k] \notin WhiteSpace
  /\ ~Contains(name, <<NL, NL, NL>>)

(* C9, the output: on an input that lines 69-74 leave alone, a tag whose    *)
(* name equals a vocabulary entry ignoring case comes out in the stored    *)
(* spelling, and a tag whose name is no entry keeps its text               *)
C9_OutputSpelling ==
  (npc = "once" /\ CleanMarkup(ntext) = ntext) =>
    \A span \in TagSpans(ntext) :
      LET name == NameOf(ntext, span)
      IN  IF EntriesFor(name) # {}
          THEN \A n \in EntriesFor(name) : Contains(nout, Bracketed(Vocabulary[n]))
          ELSE IsLabel(name) => Contains(nout, Bracketed(name))

(* C9, the loops of lines 76-83 on any text that reaches them: the result   *)
(* is the text with exactly the names that equal an entry ignoring case    *)
(* respelled, atom for atom                                                *)
C9_LoopSpelling ==
  npc = "once" =>
    LET t == CleanMarkup(ntext)
        u == StandardizeTags(t)
        known == {s \in TagSpans(t) : EntriesFor(NameOf(t, s)) # {}}
    IN  /\ Len(u) = Len(t)
        /\ \A s \in known : \A n \in EntriesFor(NameOf(t, s)) :
             NameOf(u, s) = Vocabulary[n]
        /\ \A k \in 1..Len(t) :
             (\A s \in known : k <= s[1] \/ s[2] <= k) => u[k] = t[k]

SuccessFields == {"success", "style_prompt", "title", "lyrics", "backend_used"}

IsErrorResult(r) == DOMAIN r = {"error"}

IsSuccessResult(r) == DOMAIN r = SuccessFields

Succeeded == pc = "returned" /\ IsSuccessResult(result)

StartsWith(text, pat) == MatchAt(text, 1, pat, FALSE)

(* C1: no exception leaves generate_suno_prompt, whatever the backend      *)
(* replies and however the call fails: the call ends by returning a value  *)
C1_NoExceptionEscapes == pc # "raised"

(* the request lacks a genre or a topic: the key is missing, or its value  *)
(* is empty or whitespace only                                            *)
InvalidRequest ==
  \/ Strip(ConfigGet(config, "genre", <<>>)) = <<>>
  \/ Strip(ConfigGet(config, "topic", <<>>)) = <<>>

(* C2: a request without genre or without topic never posts to the         *)
(* backend, and what the call returns for it is an error result, whatever  *)
(* the other fields and flags are                                         *)
C2_InvalidRequestNoCall ==
  InvalidRequest =>
    /\ calls = 0
    /\ pc # "raised"
    /\ pc = "returned" => IsErrorResult(result)

(* a whitespace-only genre was rejected although the credential is set *)
C2_Witness ==
  /\ pc = "returned"
  /\ api_key = Present("gsk_key")
  /\ config.genre = Present(<<SP, SP>>)
  /\ config.topic = Present(<<"love">>)
  /\ result = ErrorResult(<<"Genre and Creative Prompt are required">>)
  /\ calls = 0

(* C3: a returned value is an error message and nothing else, or it is the *)
(* four success fields, each of them filled, and no error                  *)
C3_OneShape ==
  pc = "returned" =>
    \/ /\ IsErrorResult(result)
       /\ result.error # <<>>
    \/ /\ IsSuccessResult(result)
       /\ result.success
       /\ result.style_prompt # <<>>
       /\ result.title # <<>>
       /\ result.lyrics # <<>>
       /\ result.backend_used = "groq"

(* a reply with a blank title came back as a success with all fields *)
C3_Witness ==
  /\ Succeeded
  /\ response.content = ObjectReply(Quoted(<<SP>>), Quoted(<<"hello">>))
  /\ result.title = <<"Untitled">>

(* the POST failed, or the parser found no title and lyrics in the reply *)
LyricsCallFailed ==
  /\ calls = 1
  /\ \/ response.kind \in {"429", "401", "500", "404", "transport", "not json",
                           "no content"}
     \/ /\ response.kind = "200"
        /\ ~clean_json_response(Strip(response.content)).success

HasLeadingTags(text, withBpm) ==
  /\ StartsWith(text, <<LB, "Style", ":">>)
  /\ FirstClose(text, 1) # 0
  /\ LET duration == SkipSpace(text, FirstClose(text, 1) + 1)
     IN  /\ MatchAt(text, duration, <<LB, "Duration", ":">>, FALSE)
         /\ FirstClose(text, duration) # 0
         /\ MatchAt(text, SkipSpace(text, FirstClose(text, duration) + 1),
                    <<LB, "BPM", ":">>, FALSE) <=> withBpm

(* C5: the lyrics of a success result begin with a Style tag, then a       *)
(* Duration tag, then a BPM tag exactly when bpm is not AUTO, for every    *)
(* lyrics body of the backend                                             *)
C5_LeadingTags ==
  Succeeded => HasLeadingTags(result.lyrics, bpm # <<"AUTO">>)

(* the tags of the vocal, delivery and effect vocabularies *)
DirectingTags == SUNO_VOCALS \o SUNO_DELIVERY \o SUNO_EFFECTS

HasDirectingTag(text) ==
  \E span \in TagSpans(text) : \E n \in 1..Len(DirectingTags) :
    LowerSeq(NameOf(text, span)) = LowerSeq(DirectingTags[n])

(* C6: with vocal_directing off, the lyrics of a success result hold no    *)
(* bracketed tag of the vocal, delivery or effect vocabulary              *)
C6_NoDirectingTags ==
  (Succeeded /\ ~vocal_directing) => ~HasDirectingTag(result.lyrics)

(* C10 as stated: with max_mode the style_prompt of a success result is    *)
(* the MAX_MODE_TAGS block, a newline and the resolved style text; without *)
(* max_mode it does not hold the block                                    *)
C10_BlockThenResolvedStyle ==
  Succeeded =>
    IF max_mode
    THEN result.style_prompt =
           MAX_MODE_TAGS \o <<NL>>
             \o generate_style_prompt(genre, bpm, ARTIST_STYLE_GUIDE)
    ELSE ~Contains(result.style_prompt, MAX_MODE_TAGS)

(* C10, amended: with max_mode the style_prompt of a success result is the *)
(* MAX_MODE_TAGS block, atom for atom, a newline and the resolved style    *)
(* text as validate_suno_tags returns it; without max_mode it does not     *)
(* hold the block                                                         *)
C10_BlockThenSanitizedStyle ==
  Succeeded =>
    IF max_mode
    THEN result.style_prompt =
           MAX_MODE_TAGS \o <<NL>>
             \o validate_suno_tags(
                  generate_style_prompt(genre, bpm, ARTIST_STYLE_GUIDE))
    ELSE ~Contains(result.style_prompt, MAX_MODE_TAGS)

(* a success with max_mode and an empty bpm: the sanitizer has taken the   *)
(* space that ends the BPM clause                                         *)
C10_Witness ==
  /\ Succeeded
  /\ max_mode
  /\ genre = <<"p", "o", "p">>
  /\ bpm = <<>>
  /\ result.style_prompt =
       MAX_MODE_TAGS \o <<NL>> \o style_templates[1].style
         \o <<",", SP, "BPM", ":">>

(* the opening of the clause lines 212 and 235 append to the base style *)
BpmClauseOpening == <<",", SP, "BPM", ":">>

(* generate_style_prompt has returned in this call *)
StyleResolved == pc \in {"lyrics", "respond", "process", "returned", "raised"}
                 /\ style_prompt # <<>>

(* C11: the style text holds a BPM clause exactly when the bpm of the      *)
(* request is not the token AUTO as written: a number, another casing of   *)
(* the word and the empty string get a clause with that value, AUTO none   *)
C11_BpmClauseUnlessAuto ==
  StyleResolved =>
    IF bpm # <<"AUTO">>
    THEN Contains(style_prompt, BpmClauseOpening \o <<SP>> \o bpm)
    ELSE ~Contains(style_prompt, BpmClauseOpening)

(* ---------------------------------------------------------------------- *)
(* Properties of clean_json_response                                      *)
(* ---------------------------------------------------------------------- *)

(* the text generate_with_groq handed to clean_json_response (line 192) *)
ParserInput == Strip(response.content)

(* clean_json_response has returned in this call *)
ParserRan == response.kind = "200" /\ pc \in {"process", "returned", "raised"}

RECURSIVE CharLen(_)
CharLen(text) ==
  IF text = <<>> THEN 0 ELSE Width(Head(text)) + CharLen(Tail(text))

IsPrefix(short, long) ==
  Len(short) <= Len(long) /\ SubSeq(long, 1, Len(short)) = short

HasBothFields(fields) ==
  DictHas(fields, <<"lyrics">>) /\ DictHas(fields, <<"title">>)

(* parsed is what the tiers give, tried in their order on text *)
TiersInOrder(parsed, text, whole, span, fields) ==
  /\ whole.ok => (parsed.success /\ parsed.data = whole.val)
  /\ (~whole.ok /\ span.ok) => (parsed.success /\ parsed.data = span.val)
  /\ (~whole.ok /\ ~span.ok /\ HasBothFields(fields)) =>
       (parsed.success /\ parsed.data = fields)
  /\ (~whole.ok /\ ~span.ok /\ ~HasBothFields(fields)) =>
       /\ ~parsed.success
       /\ parsed.error # <<>>
       /\ Len(parsed.raw) = 1
       /\ CharLen(parsed.raw[1]) <= RawLimit
       /\ IsPrefix(parsed.raw[1], text)

(* C12: for every text the parser returns a result tagged success or       *)
(* failure: the data of the strict parse of the text when that succeeds,   *)
(* else the data of the parse of its brace span, else the fields the       *)
(* patterns extract, and when all three fail a failure that carries the    *)
(* first characters of the text, 200 at most; an empty text is a failure   *)
C12_FirstTierThatSucceeds ==
  ParserRan =>
    /\ lyrics_result.success \in BOOLEAN
    /\ IF ParserInput = <<>> THEN ~lyrics_result.success
       ELSE TiersInOrder(lyrics_result, RemoveFenceMarks(ParserInput),
                         json_loads(RemoveFenceMarks(ParserInput)),
                         json_loads(BraceSpan(RemoveFenceMarks(ParserInput))),
                         ExtractFields(RemoveFenceMarks(ParserInput)))

(* a reply of 205 characters of prose failed in all three tiers and the    *)
(* failure carries its first 200 characters                               *)
C12_Witness ==
  /\ ParserRan
  /\ response.content = LongProse
  /\ ~lyrics_result.success
  /\ lyrics_result.raw = << [n \in 1..40 |-> "hello"] >>
  /\ CharLen(ParserInput) > RawLimit

(* val is a string that is not empty *)
IsFilledString(val) == val.t = "str" /\ val.v # <<>>

(* C13: when the parser reports success its data is a record with a title  *)
(* and with lyrics, both of them non-empty strings; a reply that lacks one  *)
(* of them, or holds it empty, is a parse failure in each of the tiers      *)
C13_SuccessHasTitleAndLyrics ==
  (ParserRan /\ lyrics_result.success) =>
    /\ lyrics_result.data.t = "obj"
    /\ DictHas(lyrics_result.data, <<"title">>)
    /\ DictHas(lyrics_result.data, <<"lyrics">>)
    /\ IsFilledString(DictGet(lyrics_result.data, <<"title">>, JLit("null")))
    /\ IsFilledString(DictGet(lyrics_result.data, <<"lyrics">>, JLit("null")))

(* ---------------------------------------------------------------------- *)
(* Properties of generate_with_groq                                       *)
(* ---------------------------------------------------------------------- *)

(* the failure kinds of the taxonomy, for what the POST did: "none" when   *)
(* the call succeeds, "other" for a server error, which the taxonomy does  *)
(* not name                                                               *)
FailureKind(response_) ==
  CASE response_.kind = "401" -> "credential"
    [] response_.kind = "429" -> "rate limit"
    [] response_.kind = "transport" -> "network"
    [] response_.kind \in {"not json", "no content"} -> "malformed response"
    [] response_.kind = "404" -> "unknown model"
    [] response_.kind = "200" ->
         IF GroqResult(response_).success THEN "none" ELSE "parse"
    [] OTHER -> "other"

(* the fixed text an error of generate_with_groq begins with *)
ErrorLabel(groq_result) == groq_result.error[1]

(* each failure kind with each label generate_with_groq gives it *)
FailureLabels ==
  {<<FailureKind(r), ErrorLabel(GroqResult(r))>> :
     r \in {q \in Responses : FailureKind(q) \notin {"none", "other"}}}

(* C14: the label of an error generate_with_groq returns belongs to one    *)
(* failure kind only: no failure of another kind gets the same label, so   *)
(* the label tells credential, rate limit, network, malformed response,    *)
(* unknown model and parse failures apart                                  *)
C14_LabelTellsKind ==
  (calls = 1 /\ pc \in {"process", "returned", "raised"}
   /\ FailureKind(response) \notin {"none", "other"}) =>
    \A pair \in FailureLabels :
      pair[2] = ErrorLabel(lyrics_result) => pair[1] = FailureKind(response)

(* ---------------------------------------------------------------------- *)
(* Properties of generate_style_prompt                                    *)
(* ---------------------------------------------------------------------- *)

(* the entries of the genre table whose keyword occurs in the lower-cased  *)
(* genre                                                                  *)
KeywordsIn(genre_) ==
  {n \in 1..Len(style_templates) :
     IsSubstring(style_templates[n].key, LowerSeq(genre_))}

GenericDefault == <<"contemporary production, melodic, emotional vocals">>

(* the style text is base, with or without the MAX block before it and the *)
(* BPM clause after it                                                    *)
HasBaseStyle(base) ==
  \E block \in {<<>>, MAX_MODE_TAGS \o <<NL>>},
     clause \in {<<>>, BpmClauseOpening \o <<SP>> \o bpm} :
    style_prompt = block \o base \o clause

(* C15: the base style comes from the genre table alone and before any     *)
(* backend call: it is the template of a keyword that occurs in the        *)
(* lower-cased genre, and the generic default when no keyword occurs in    *)
(* it, as for punk or a single letter                                     *)
C15_StyleFromGenreTable ==
  StyleResolved =>
    /\ pc = "lyrics" => calls = 0
    /\ IF KeywordsIn(genre) # {}
       THEN \E n \in KeywordsIn(genre) : HasBaseStyle(style_templates[n].style)
       ELSE HasBaseStyle(GenericDefault)

(* ---------------------------------------------------------------------- *)
(* Properties of the assembled result                                     *)
(* ---------------------------------------------------------------------- *)

(* what the sanitizer promises of its output: no three newlines in a row,  *)
(* no brackets with nothing or only whitespace between them, no closing    *)
(* bracket directly before an opening one, no brace, double quote or       *)
(* backslash, no whitespace at either end                                 *)
IsSanitized(text) ==
  /\ \A i \in 1..(Len(text) - 2) :
       ~(text[i] = NL /\ text[i + 1] = NL /\ text[i + 2] = NL)
  /\ \A i \in 1..Len(text) :
       text[i] = LB =>
         ~(SkipSpace(text, i + 1) <= Len(text)
           /\ text[SkipSpace(text, i + 1)] = RB)
  /\ \A i \in 1..(Len(text) - 1) : ~(text[i] = RB /\ text[i + 1] = LB)
  /\ \A i \in 1..Len(text) : text[i] \notin StrayChars
  /\ text # <<>> => (text[1] \notin WhiteSpace
                     /\ text[Len(text)] \notin WhiteSpace)

(* C16: the lyrics and the style_prompt of a success result, leading tags  *)
(* and MAX block included, are as the sanitizer leaves a text, for every   *)
(* bpm                                                                    *)
C16_SanitizedAfterAssembly ==
  Succeeded => (IsSanitized(result.lyrics) /\ IsSanitized(result.style_prompt))

(* ---------------------------------------------------------------------- *)
(* Order of the steps of generate_suno_prompt                             *)
(* ---------------------------------------------------------------------- *)

(* the place of a step in the order: credential check, request validation, *)
(* style resolution, backend call, parsing of the reply, sanitization and  *)
(* assembly, end of the call                                              *)
StepRank(step) ==
  CASE step = "credential" -> 1
    [] step = "extract" -> 2
    [] step = "style" -> 3
    [] step = "lyrics" -> 4
    [] step = "respond" -> 5
    [] step = "process" -> 6
    [] OTHER -> 7

(* C17: every step of a call moves forward in the order credential check,  *)
(* request validation, style resolution, backend call, parsing,            *)
(* sanitization, return, leaving none out unless it returns; the request   *)
(* is posted at most once, after the style was resolved and before the     *)
(* reply is parsed and the result assembled, and never when the credential *)
(* is missing or the request invalid                                      *)
C17_StepsInOrder ==
  [][ /\ StepRank(pc') > StepRank(pc)
      /\ StepRank(pc') < 7 => StepRank(pc') = StepRank(pc) + 1
      /\ pc' = "raised" => pc = "process"
      /\ calls' \in {calls, calls + 1}
      /\ calls' <= 1
      /\ calls' # calls =>
           (pc = "lyrics" /\ style_prompt # <<>> /\ genre # <<>>
            /\ topic # <<>> /\ ~NoKey(api_key))
      /\ lyrics_result' # lyrics_result => (pc = "respond" /\ calls = 1)
      /\ (result' # result /\ IsSuccessResult(result')) =>
           (pc = "process" /\ calls = 1 /\ lyrics_result.success)
      /\ (NoKey(api_key) \/ InvalidRequest) => calls' = 0
    ]_vars

(* a call went through every step, posted once and returned a success *)
C17_Witness ==
  /\ Succeeded
  /\ calls = 1
  /\ response.kind = "200"
  /\ lyrics_result.success
  /\ style_prompt # <<>>

====
